---------------------------- MODULE Spec2Model ----------------------------
(***************************************************************************)
(* Order API: cursor pagination over orders (app/crud.py) and the ETA /    *)
(* merge-suggestion engine (app/services/eta.py), with the order handlers  *)
(* of app/routers/orders.py that change the data both read.                *)
(*                                                                         *)
(* Text is a sequence of one-character strings, bytes are numbers 0..255.  *)
(* Distances are fixed-point: haversine_km yields millionths of a km.      *)
(***************************************************************************)
EXTENDS Integers, Sequences, FiniteSets, TLC

VARIABLES
    orders,      \* table orders: id -> [status, created_at, customer_id]
    nextId,      \* the serial sequence behind orders.id
    customers,   \* table customers: id -> [latitude, longitude]
    now,         \* the database clock behind created_at
    lastPage,    \* the response of the last GET /orders
    lastEta,     \* the response of the last GET /orders/{id}/eta
    sess,        \* a client following next_cursor from page to page
    codec,       \* a caller of _encode_cursor / _decode_cursor
    job,         \* a call of calculate_order_eta, statement by statement
    reply        \* the HTTP status of the last response, 0 before the first

vars == <<orders, nextId, customers, now, lastPage, lastEta, sess, codec, job,
          reply>>

---------------------------------------------------------------------------
(* Bounds of the model.                                                    *)

MaxOrders == 4      \* ids the serial sequence hands out
MaxLimit == 3       \* page sizes tried (the router accepts 1..100)
MaxKey == 120       \* keys tried by the codec round trip
MaxEtaOrders == 3   \* ids handed out under the main specification
MaxSnapOrders == 2  \* orders in the table when a call is taken apart
MaxOverlap == 2     \* commits of other requests that meet one call
MaxAddrOrders == 3  \* orders in the table when addresses are updated

---------------------------------------------------------------------------
(* Text, bytes, base64, JSON: what json.dumps / json.loads and             *)
(* base64.urlsafe_b64encode / urlsafe_b64decode do to a cursor.            *)

Ascii ==
    << " ", "!", "\"", "#", "$", "%", "&", "'", "(", ")", "*", "+", ",", "-", ".", "/",
       "0", "1", "2", "3", "4", "5", "6", "7", "8", "9", ":", ";", "<", "=", ">", "?",
       "@", "A", "B", "C", "D", "E", "F", "G", "H", "I", "J", "K", "L", "M", "N", "O",
       "P", "Q", "R", "S", "T", "U", "V", "W", "X", "Y", "Z", "[", "\\", "]", "^", "_",
       "<grave>", "a", "b", "c", "d", "e", "f", "g", "h", "i", "j", "k", "l", "m", "n", "o",
       "p", "q", "r", "s", "t", "u", "v", "w", "x", "y", "z", "{", "|", "}", "~" >>

\* (code 96, the grave accent, is written "<grave>")
\* str.encode(): the byte of an ASCII character (all text encoded here is ASCII)
Ord(c) == (CHOOSE i \in 1..Len(Ascii) : Ascii[i] = c) + 31

\* one decoded character: printable ASCII, JSON whitespace, any other control
\* character as "<ctl>"
Chr(b) ==
    IF b >= 32 /\ b <= 126 THEN Ascii[b - 31]
    ELSE IF b = 9 THEN "\t"
    ELSE IF b = 10 THEN "\n"
    ELSE IF b = 13 THEN "\r"
    ELSE "<ctl>"

str_encode(text) == [i \in 1..Len(text) |-> Ord(text[i])]

\* bytes.decode(): strict UTF-8. A well-formed multi-byte sequence decodes to
\* one non-ASCII character, written "<u>"; anything else raises.
RECURSIVE Utf8Scan(_, _, _)
Utf8Scan(bs, i, acc) ==
    IF i > Len(bs) THEN [ok |-> TRUE, text |-> acc]
    ELSE LET b == bs[i]
             need == IF b < 128 THEN 0
                     ELSE IF b >= 194 /\ b <= 223 THEN 1
                     ELSE IF b >= 224 /\ b <= 239 THEN 2
                     ELSE IF b >= 240 /\ b <= 244 THEN 3
                     ELSE 4
             contOk == /\ need < 4
                       /\ i + need <= Len(bs)
                       /\ \A j \in (i + 1)..(i + need) : bs[j] >= 128 /\ bs[j] <= 191
         IN IF ~contOk THEN [ok |-> FALSE, text |-> <<>>]
            ELSE Utf8Scan(bs, i + need + 1,
                          Append(acc, IF need = 0 THEN Chr(b) ELSE "<u>"))

bytes_decode(bs) == Utf8Scan(bs, 1, <<>>)

B64Chars ==
    << "A", "B", "C", "D", "E", "F", "G", "H", "I", "J", "K", "L", "M", "N", "O", "P",
       "Q", "R", "S", "T", "U", "V", "W", "X", "Y", "Z", "a", "b", "c", "d", "e", "f",
       "g", "h", "i", "j", "k", "l", "m", "n", "o", "p", "q", "r", "s", "t", "u", "v",
       "w", "x", "y", "z", "0", "1", "2", "3", "4", "5", "6", "7", "8", "9", "-", "_" >>

\* base64.urlsafe_b64encode: three bytes to four characters, "=" padding
RECURSIVE B64EncodeFrom(_, _, _)
B64EncodeFrom(bs, i, acc) ==
    LET left == Len(bs) - i + 1
        c(n) == B64Chars[n + 1]
    IN IF left <= 0 THEN acc
       ELSE IF left = 1 THEN
            acc \o << c(bs[i] \div 4), c((bs[i] % 4) * 16), "=", "=" >>
       ELSE IF left = 2 THEN
            acc \o << c(bs[i] \div 4),
                      c((bs[i] % 4) * 16 + bs[i + 1] \div 16),
                      c((bs[i + 1] % 16) * 4), "=" >>
       ELSE B64EncodeFrom(bs, i + 3,
            acc \o << c(bs[i] \div 4),
                      c((bs[i] % 4) * 16 + bs[i + 1] \div 16),
                      c((bs[i + 1] % 16) * 4 + bs[i + 2] \div 64),
                      c(bs[i + 2] % 64) >>)

urlsafe_b64encode(bs) == B64EncodeFrom(bs, 1, <<>>)

\* the value of a base64 character, 64 for a character outside the alphabet;
\* urlsafe_b64decode maps "-" and "_" to "+" and "/", which stay valid too
B64Value(ch) ==
    IF ch = "+" THEN 62
    ELSE IF ch = "/" THEN 63
    ELSE IF \E n \in 1..64 : B64Chars[n] = ch
         THEN (CHOOSE n \in 1..64 : B64Chars[n] = ch) - 1
    ELSE 64

\* binascii.a2b_base64, non-strict: characters outside the alphabet are
\* skipped, a pad sequence that completes a quad ends the data, and an
\* incomplete quad at the end raises.
RECURSIVE B64DecodeFrom(_, _, _, _, _, _)
B64DecodeFrom(s, i, quad, pads, leftchar, acc) ==
    IF i > Len(s) THEN [ok |-> quad = 0, bytes |-> acc]
    ELSE IF s[i] = "=" THEN
         IF quad >= 2 /\ quad + pads + 1 >= 4 THEN [ok |-> TRUE, bytes |-> acc]
         ELSE B64DecodeFrom(s, i + 1, quad,
                            IF quad >= 2 THEN pads + 1 ELSE pads, leftchar, acc)
    ELSE LET v == B64Value(s[i])
         IN IF v >= 64 THEN B64DecodeFrom(s, i + 1, quad, pads, leftchar, acc)
            ELSE IF quad = 0 THEN B64DecodeFrom(s, i + 1, 1, 0, v, acc)
            ELSE IF quad = 1 THEN
                 B64DecodeFrom(s, i + 1, 2, 0, v % 16,
                               Append(acc, leftchar * 4 + v \div 16))
            ELSE IF quad = 2 THEN
                 B64DecodeFrom(s, i + 1, 3, 0, v % 4,
                               Append(acc, leftchar * 16 + v \div 4))
            ELSE B64DecodeFrom(s, i + 1, 0, 0, 0,
                               Append(acc, leftchar * 64 + v))

urlsafe_b64decode(s) == B64DecodeFrom(s, 1, 0, 0, 0, <<>>)

---------------------------------------------------------------------------
(* JSON values, as Python objects: t is the type, n the number (a float's  *)
(* floor), s the text of a string (a float's literal), items the members   *)
(* of a dict (k, v) or the elements of a list (v).                         *)

JNull == [t |-> "null", n |-> 0, s |-> <<>>, items |-> <<>>]
JBool(b) == [t |-> "bool", n |-> IF b THEN 1 ELSE 0, s |-> <<>>, items |-> <<>>]
JInt(n) == [t |-> "int", n |-> n, s |-> <<>>, items |-> <<>>]
JFloat(floor, literal) == [t |-> "float", n |-> floor, s |-> literal, items |-> <<>>]
JStr(s) == [t |-> "str", n |-> 0, s |-> s, items |-> <<>>]
JList(items) == [t |-> "list", n |-> 0, s |-> <<>>, items |-> items]
JDict(items) == [t |-> "dict", n |-> 0, s |-> <<>>, items |-> items]

\* Python's None is JSON's null
None == JNull

Digits == <<"0", "1", "2", "3", "4", "5", "6", "7", "8", "9">>
IsDigit(c) == \E d \in 1..10 : Digits[d] = c
DigitVal(c) == (CHOOSE d \in 1..10 : Digits[d] = c) - 1

\* str(int), as json.dumps writes an integer
RECURSIVE NatToStr(_)
NatToStr(n) ==
    IF n < 10 THEN <<Digits[n + 1]>>
    ELSE Append(NatToStr(n \div 10), Digits[(n % 10) + 1])

IntToStr(n) == IF n < 0 THEN <<"-">> \o NatToStr(-n) ELSE NatToStr(n)

\* json.dumps({"id": key}) with the default separators
json_dumps_id(key) ==
    <<"{", "\"", "i", "d", "\"", ":", " ">> \o IntToStr(key) \o <<"}">>

\* json.loads, a recursive-descent parser over the grammar
\*   value  = dict | list | string | number | true | false | null
\*   number = -? (0 | [1-9][0-9]*) (. [0-9]+)?
\* Results are [ok, val, j]: j is the position after the value.
ParseFail == [ok |-> FALSE, val |-> JNull, j |-> 0]

RECURSIVE SkipWs(_, _)
SkipWs(t, i) ==
    IF i <= Len(t) /\ t[i] \in {" ", "\t", "\n", "\r"} THEN SkipWs(t, i + 1) ELSE i

RECURSIVE ScanDigits(_, _, _)
ScanDigits(t, i, acc) ==
    IF i <= Len(t) /\ IsDigit(t[i])
    THEN ScanDigits(t, i + 1, acc * 10 + DigitVal(t[i]))
    ELSE [n |-> acc, j |-> i]

ParseNumber(t, i) ==
    LET neg == t[i] = "-"
        st == IF neg THEN i + 1 ELSE i
    IN IF st > Len(t) \/ ~IsDigit(t[st]) THEN ParseFail
       ELSE LET ip == IF t[st] = "0" THEN [n |-> 0, j |-> st + 1]
                      ELSE ScanDigits(t, st, 0)
                hasFrac == /\ ip.j + 1 <= Len(t)
                           /\ t[ip.j] = "."
                           /\ IsDigit(t[ip.j + 1])
                fp == ScanDigits(t, ip.j + 1, 0)
            IN IF hasFrac
               THEN [ok |-> TRUE,
                     val |-> JFloat(IF neg /\ fp.n # 0 THEN (0 - ip.n) - 1
                                    ELSE IF neg THEN 0 - ip.n ELSE ip.n,
                                    SubSeq(t, i, fp.j - 1)),
                     j |-> fp.j]
               ELSE [ok |-> TRUE,
                     val |-> JInt(IF neg THEN 0 - ip.n ELSE ip.n),
                     j |-> ip.j]

IsHex(c) == IsDigit(c) \/ c \in {"a", "b", "c", "d", "e", "f", "A", "B", "C", "D", "E", "F"}

\* a string from the character after its opening quote: [ok, s, j]
RECURSIVE ParseString(_, _, _)
ParseString(t, i, acc) ==
    IF i > Len(t) THEN [ok |-> FALSE, s |-> <<>>, j |-> 0]
    ELSE IF t[i] = "\"" THEN [ok |-> TRUE, s |-> acc, j |-> i + 1]
    ELSE IF t[i] \in {"<ctl>", "\t", "\n", "\r"} THEN [ok |-> FALSE, s |-> <<>>, j |-> 0]
    ELSE IF t[i] = "\\" THEN
         IF i + 1 > Len(t) THEN [ok |-> FALSE, s |-> <<>>, j |-> 0]
         ELSE IF t[i + 1] \in {"\"", "\\", "/"}
              THEN ParseString(t, i + 2, Append(acc, t[i + 1]))
         ELSE IF t[i + 1] = "n" THEN ParseString(t, i + 2, Append(acc, "\n"))
         ELSE IF t[i + 1] = "t" THEN ParseString(t, i + 2, Append(acc, "\t"))
         ELSE IF t[i + 1] = "r" THEN ParseString(t, i + 2, Append(acc, "\r"))
         ELSE IF t[i + 1] \in {"b", "f"} THEN ParseString(t, i + 2, Append(acc, "<ctl>"))
         ELSE IF /\ t[i + 1] = "u"
                 /\ i + 5 <= Len(t)
                 /\ \A h \in (i + 2)..(i + 5) : IsHex(t[h])
              THEN ParseString(t, i + 6, Append(acc, "<u>"))
         ELSE [ok |-> FALSE, s |-> <<>>, j |-> 0]
    ELSE ParseString(t, i + 1, Append(acc, t[i]))

StartsWith(t, i, w) ==
    /\ i + Len(w) - 1 <= Len(t)
    /\ \A x \in 1..Len(w) : t[i + x - 1] = w[x]

RECURSIVE ParseValue(_, _)
RECURSIVE ParseMembers(_, _, _)
RECURSIVE ParseElements(_, _, _)

\* the members of a dict, from the first key's opening quote
ParseMembers(t, i, acc) ==
    IF i > Len(t) \/ t[i] # "\"" THEN ParseFail
    ELSE LET key == ParseString(t, i + 1, <<>>)
             c == SkipWs(t, key.j)
         IN IF ~key.ok \/ c > Len(t) \/ t[c] # ":" THEN ParseFail
            ELSE LET v == ParseValue(t, SkipWs(t, c + 1))
                     e == SkipWs(t, v.j)
                     all == Append(acc, [k |-> key.s, v |-> v.val])
                 IN IF ~v.ok \/ e > Len(t) THEN ParseFail
                    ELSE IF t[e] = "}" THEN [ok |-> TRUE, val |-> JDict(all), j |-> e + 1]
                    ELSE IF t[e] = "," THEN ParseMembers(t, SkipWs(t, e + 1), all)
                    ELSE ParseFail

\* the elements of a list, from the first element
ParseElements(t, i, acc) ==
    LET v == ParseValue(t, i)
        e == SkipWs(t, v.j)
        all == Append(acc, [k |-> <<>>, v |-> v.val])
    IN IF ~v.ok \/ e > Len(t) THEN ParseFail
       ELSE IF t[e] = "]" THEN [ok |-> TRUE, val |-> JList(all), j |-> e + 1]
       ELSE IF t[e] = "," THEN ParseElements(t, SkipWs(t, e + 1), all)
       ELSE ParseFail

ParseValue(t, i) ==
    IF i > Len(t) THEN ParseFail
    ELSE IF t[i] = "{" THEN
         LET m == SkipWs(t, i + 1)
         IN IF m <= Len(t) /\ t[m] = "}"
            THEN [ok |-> TRUE, val |-> JDict(<<>>), j |-> m + 1]
            ELSE ParseMembers(t, m, <<>>)
    ELSE IF t[i] = "[" THEN
         LET m == SkipWs(t, i + 1)
         IN IF m <= Len(t) /\ t[m] = "]"
            THEN [ok |-> TRUE, val |-> JList(<<>>), j |-> m + 1]
            ELSE ParseElements(t, m, <<>>)
    ELSE IF t[i] = "\"" THEN
         LET str == ParseString(t, i + 1, <<>>)
         IN IF str.ok THEN [ok |-> TRUE, val |-> JStr(str.s), j |-> str.j] ELSE ParseFail
    ELSE IF StartsWith(t, i, <<"t", "r", "u", "e">>)
         THEN [ok |-> TRUE, val |-> JBool(TRUE), j |-> i + 4]
    ELSE IF StartsWith(t, i, <<"f", "a", "l", "s", "e">>)
         THEN [ok |-> TRUE, val |-> JBool(FALSE), j |-> i + 5]
    ELSE IF StartsWith(t, i, <<"n", "u", "l", "l">>)
         THEN [ok |-> TRUE, val |-> JNull, j |-> i + 4]
    ELSE ParseNumber(t, i)

\* json.loads(text): one value, whitespace around it, nothing after it
json_loads(text) ==
    LET v == ParseValue(text, SkipWs(text, 1))
    IN IF v.ok /\ SkipWs(text, v.j) > Len(text)
       THEN [ok |-> TRUE, val |-> v.val]
       ELSE [ok |-> FALSE, val |-> JNull]

\* obj.get("id"): the value of the last member named id, None without one;
\* [ok |-> FALSE] when obj is no dict (AttributeError)
RECURSIVE DictGet(_, _, _, _)
DictGet(items, key, i, found) ==
    IF i > Len(items) THEN found
    ELSE DictGet(items, key, i + 1, IF items[i].k = key THEN items[i].v ELSE found)

obj_get(obj, key) ==
    IF obj.t = "dict" THEN [ok |-> TRUE, val |-> DictGet(obj.items, key, 1, None)]
    ELSE [ok |-> FALSE, val |-> None]

---------------------------------------------------------------------------
(* The cursor codec of app/crud.py.                                        *)

\* (a variant that dumps the id alone instead of the payload {"id": id})
encode_cursor_bare(key) == urlsafe_b64encode(str_encode(IntToStr(key)))

\* _encode_cursor(order), order.id = key
encode_cursor(key) == urlsafe_b64encode(str_encode(json_dumps_id(key)))

\* an exception on its way out of a call
Raised == [t |-> "raise", n |-> 0, s |-> <<>>, items |-> <<>>]

\* (a variant without the try / except: the exception leaves the function)
decode_cursor_unguarded(cursor) ==
    LET raw == urlsafe_b64decode(cursor)
        text == bytes_decode(raw.bytes)
        obj == json_loads(text.text)
        got == obj_get(obj.val, <<"i", "d">>)
    IN IF raw.ok /\ text.ok /\ obj.ok /\ got.ok THEN got.val ELSE Raised

\* _decode_cursor(cursor): any exception of the try block yields None
decode_cursor(cursor) ==
    LET raw == urlsafe_b64decode(cursor)
        text == bytes_decode(raw.bytes)
        obj == json_loads(text.text)
        got == obj_get(obj.val, <<"i", "d">>)
    IN IF raw.ok /\ text.ok /\ obj.ok /\ got.ok THEN got.val ELSE None

---------------------------------------------------------------------------
(* Cursors a client may send besides the ones the server handed out.       *)

\* "garbage-not-base64": no base64 (incorrect padding)
TokGarbage ==
    <<"g", "a", "r", "b", "a", "g", "e", "-", "n", "o", "t", "-", "b", "a", "s", "e", "6", "4">>

\* "_w==": base64 of the byte 0xFF, no UTF-8
TokNotUtf8 ==
    <<"_", "w", "=", "=">>

\* "aGVsbG8=": base64 of hello, no JSON
TokNotJson ==
    <<"a", "G", "V", "s", "b", "G", "8", "=">>

\* "WzFd": base64 of [1], JSON but no dict
TokList ==
    <<"W", "z", "F", "d">>

\* "e30=": base64 of {}, a dict without "id"
TokNoId ==
    <<"e", "3", "0", "=">>

\* base64 of {"id": null}
TokNullId ==
    <<"e", "y", "J", "p", "Z", "C", "I", "6", "I", "G", "5", "1", "b", "G", "x", "9">>

\* base64 of {"id": "abc"}
TokStrId ==
    <<"e", "y", "J", "p", "Z", "C", "I", "6", "I", "C", "J", "h", "Y", "m", "M", "i", "f", "Q", "=", "=">>

\* base64 of {"id": [1]}
TokListId ==
    <<"e", "y", "J", "p", "Z", "C", "I", "6", "I", "F", "s", "x", "X", "X", "0", "=">>

\* base64 of {"id": 0}
TokZeroId ==
    <<"e", "y", "J", "p", "Z", "C", "I", "6", "I", "D", "B", "9">>

\* tokens that are no base64, no UTF-8 or no JSON
UndecodableTokens == {TokGarbage, TokNotUtf8, TokNotJson}

\* tokens of well-formed JSON that carries no integer id
TamperedTokens == {TokList, TokNoId, TokNullId, TokStrId, TokListId}

ClientTokens == UndecodableTokens \cup TamperedTokens \cup {TokZeroId}

\* cursor: str | None
NoCursor == [some |-> FALSE, tok |-> <<>>]
Cursor(tok) == [some |-> TRUE, tok |-> tok]

---------------------------------------------------------------------------
(* The tables.                                                             *)

Statuses == {"new", "pending", "cancelled"}
CustomerIds == {1, 2}

\* (a variant whose status defaults to "pending")
NewOrder_pending(c, t) == [status |-> "pending", created_at |-> t, customer_id |-> c]

\* Order(customer_id = c): status defaults to "new", created_at to now()
NewOrder(c, t) == [status |-> "new", created_at |-> t, customer_id |-> c]

RECURSIVE SortedIds(_)
SortedIds(S) ==
    IF S = {} THEN <<>>
    ELSE LET m == CHOOSE x \in S : \A y \in S : x <= y
         IN <<m>> \o SortedIds(S \ {m})

Take(seq, n) == SubSeq(seq, 1, IF Len(seq) < n THEN Len(seq) ELSE n)

Range(seq) == {seq[i] : i \in 1..Len(seq)}

---------------------------------------------------------------------------
(* Pagination: get_orders_cursor of app/crud.py.                           *)

\* bool(last_id), the test of "if last_id:"
Truthy(v) ==
    IF v.t \in {"int", "bool"} THEN v.n # 0
    ELSE IF v.t = "float" THEN \E i \in 1..Len(v.s) : IsDigit(v.s[i]) /\ v.s[i] # "0"
    ELSE IF v.t = "str" THEN v.s # <<>>
    ELSE IF v.t \in {"list", "dict"} THEN v.items # <<>>
    ELSE FALSE

\* WHERE orders.id > :last_id on PostgreSQL (DATABASE_URL): a number bounds
\* the ids, a string of digits is read as a number, any other parameter
\* makes the statement fail. [ok, bound]
IdGreaterThan(last_id) ==
    IF last_id.t \in {"int", "float"} THEN [ok |-> TRUE, bound |-> last_id.n]
    ELSE IF /\ last_id.t = "str"
            /\ \A i \in 1..Len(last_id.s) : IsDigit(last_id.s[i])
         THEN [ok |-> TRUE, bound |-> ScanDigits(last_id.s, 1, 0).n]
    ELSE [ok |-> FALSE, bound |-> 0]

\* The tokens and keys the model's requests can carry, with the results of
\* _decode_cursor and _encode_cursor on them computed once.
KnownTokens == ClientTokens \cup {encode_cursor(k) : k \in 1..MaxOrders}
decoded == [t \in KnownTokens |-> decode_cursor(t)]
encoded == [k \in 1..MaxOrders |-> encode_cursor(k)]

PageError == [ok |-> FALSE, items |-> <<>>, next_cursor |-> NoCursor]

\* lines 117-118: last_id, None without a cursor
cursor_last_id(cursor) ==
    IF cursor.some /\ cursor.tok # <<>> THEN decoded[cursor.tok] ELSE None

\* lines 119-120: the WHERE clause, [ok, filtered, bound]; an exception out
\* of _decode_cursor would pass through here
where_clause(last_id) ==
    IF last_id = Raised THEN [ok |-> FALSE, filtered |-> FALSE, bound |-> 0]
    ELSE IF Truthy(last_id)
         THEN [ok |-> IdGreaterThan(last_id).ok, filtered |-> TRUE,
               bound |-> IdGreaterThan(last_id).bound]
    ELSE [ok |-> TRUE, filtered |-> FALSE, bound |-> 0]

\* (a variant whose statement loses the WHERE clause)
select_orders_unfiltered(db, where, n) == Take(SortedIds(DOMAIN db), n)

\* line 122: ORDER BY id ASC, the WHERE clause, LIMIT n
select_orders(db, where, n) ==
    Take(SortedIds({id \in DOMAIN db : ~where.filtered \/ id > where.bound}), n)

\* (a variant that leaves the extra row in the page)
page_of_unpopped(items, limit) ==
    IF Len(items) > limit
    THEN [ok |-> TRUE, items |-> items,
          next_cursor |-> Cursor(encoded[items[Len(items)]])]
    ELSE [ok |-> TRUE, items |-> items, next_cursor |-> NoCursor]

\* (a variant that pops as soon as limit rows were fetched)
page_of_eager(items, limit) ==
    IF Len(items) >= limit /\ items # <<>>
    THEN [ok |-> TRUE, items |-> SubSeq(items, 1, Len(items) - 1),
          next_cursor |-> Cursor(encoded[items[Len(items)]])]
    ELSE [ok |-> TRUE, items |-> items, next_cursor |-> NoCursor]

\* lines 124-129: items.pop() and the cursor made of the popped row
page_of(items, limit) ==
    IF Len(items) > limit
    THEN [ok |-> TRUE,
          items |-> SubSeq(items, 1, Len(items) - 1),
          next_cursor |-> Cursor(encoded[items[Len(items)]])]
    ELSE [ok |-> TRUE, items |-> items, next_cursor |-> NoCursor]

fetch_page(db, limit, where) ==
    IF where.ok THEN page_of(select_orders(db, where, limit + 1), limit) ELSE PageError

\* get_orders_cursor(db, limit, cursor) on the table db: [ok, items,
\* next_cursor], ok false when the statement raises
get_orders_cursor(db, limit, cursor) ==
    fetch_page(db, limit, where_clause(cursor_last_id(cursor)))

---------------------------------------------------------------------------
(* The ETA engine: app/services/eta.py and app/utils/geography.py.         *)
(* Coordinates are in 1/10000 degree; haversine_km is in 1/1000000 km;     *)
(* the fields of a result are in 1/100 km, 1/100 minute and 1/100 gram.    *)

WAREHOUSE_LAT == 504501
WAREHOUSE_LON == 305234
AVG_SPEED_KM_PER_MIN == [num |-> 1, den |-> 2]
CO2_PER_KM_G == 121
MERGE_RADIUS_KM == 3

Million == 1000 * 1000

\* where the customers of the model live: at the warehouse, 0.02 degree and
\* 0.04 degree north of it, and at (50.450601, 30.565763783608283), written
\* here to 1/10000 degree, a point for which haversine_km from the warehouse
\* returns 3.0 exactly
Coords ==
    { [latitude |-> 504501, longitude |-> 305234],
      [latitude |-> 504701, longitude |-> 305234],
      [latitude |-> 504901, longitude |-> 305234],
      [latitude |-> 504506, longitude |-> 305658] }

\* haversine_km on the coordinates of the model, the formula's values
\* (2.2238985..., 4.4477970..., 3.0, 3.7005594... and 5.3178689... km) in
\* 1/1000000 km
HaversineTable ==
    [ p \in {<<a.latitude, a.longitude, b.latitude, b.longitude>> : a, b \in Coords} |->
        IF p[1] = p[3] THEN 0
        ELSE IF {p[1], p[3]} \in {{504501, 504701}, {504701, 504901}} THEN 2223899
        ELSE IF {p[1], p[3]} = {504501, 504901} THEN 4447797
        ELSE IF {p[1], p[3]} = {504501, 504506} THEN 3000000
        ELSE IF {p[1], p[3]} = {504701, 504506} THEN 3700559
        ELSE 5317869 ]

haversine_km(lat1, lon1, lat2, lon2) == HaversineTable[<<lat1, lon1, lat2, lon2>>]

\* round(x, 2) of x >= 0 given in 1/1000000: hundredths, ties to even
Round2(x) ==
    IF 2 * (x % 10000) > 10000 THEN (x \div 10000) + 1
    ELSE IF 2 * (x % 10000) < 10000 THEN x \div 10000
    ELSE (x \div 10000) + ((x \div 10000) % 2)

\* Optional[int] for suggested_merge_with
NoOrder == [some |-> FALSE, id |-> 0]
SomeOrder(id) == [some |-> TRUE, id |-> id]

\* (a variant that orders by created_at descending)
pending_orders_newest_first(db, order_id) ==
    { seq \in [1..Cardinality({id \in DOMAIN db : db[id].status = "pending" /\ id # order_id})
                 -> {id \in DOMAIN db : db[id].status = "pending" /\ id # order_id}] :
        /\ \A i, j \in DOMAIN seq : i # j => seq[i] # seq[j]
        /\ \A i, j \in DOMAIN seq : i < j => db[seq[i]].created_at >= db[seq[j]].created_at }

\* lines 49-58: the pending orders other than order_id, ORDER BY created_at.
\* Rows of equal created_at come in any order: one sequence per order the
\* database may return.
pending_orders(db, order_id) ==
    { seq \in [1..Cardinality({id \in DOMAIN db : db[id].status = "pending" /\ id # order_id})
                 -> {id \in DOMAIN db : db[id].status = "pending" /\ id # order_id}] :
        /\ \A i, j \in DOMAIN seq : i # j => seq[i] # seq[j]
        /\ \A i, j \in DOMAIN seq : i < j => db[seq[i]].created_at <= db[seq[j]].created_at }

\* (a variant that measures from the warehouse instead of the subject)
within_radius_of_warehouse(db, custs, lat_cust, lon_cust, other) ==
    haversine_km(WAREHOUSE_LAT, WAREHOUSE_LON,
                 custs[db[other].customer_id].latitude,
                 custs[db[other].customer_id].longitude) <= MERGE_RADIUS_KM * Million

\* (a variant whose radius is exclusive)
within_radius_strict(db, custs, lat_cust, lon_cust, other) ==
    haversine_km(lat_cust, lon_cust,
                 custs[db[other].customer_id].latitude,
                 custs[db[other].customer_id].longitude) < MERGE_RADIUS_KM * Million

\* lines 62-68: the distance from (lat_cust, lon_cust) to other's customer
\* against the merge radius
within_radius(db, custs, lat_cust, lon_cust, other) ==
    haversine_km(lat_cust, lon_cust,
                 custs[db[other].customer_id].latitude,
                 custs[db[other].customer_id].longitude) <= MERGE_RADIUS_KM * Million

\* lines 60-70: the first order of the scan within the radius
RECURSIVE merge_scan(_, _, _, _, _, _)
merge_scan(db, custs, lat_cust, lon_cust, pending, i) ==
    IF i > Len(pending) THEN NoOrder
    ELSE IF within_radius(db, custs, lat_cust, lon_cust, pending[i])
         THEN SomeOrder(pending[i])
    ELSE merge_scan(db, custs, lat_cust, lon_cust, pending, i + 1)

\* (a variant that never promises less than a minute)
eta_result_one_minute(order_id, distance, suggested_id) ==
    [called |-> TRUE, code |-> 200, order_id |-> order_id,
     distance_km |-> Round2(distance),
     eta_minutes |-> IF distance < Million \div 2 THEN 100
                     ELSE Round2((distance * AVG_SPEED_KM_PER_MIN.den)
                                     \div AVG_SPEED_KM_PER_MIN.num),
     co2_grams |-> Round2(distance * CO2_PER_KM_G),
     suggested_merge_with |-> suggested_id]

\* lines 35-46 and 72-78: the result for a distance and a suggestion
eta_result(order_id, distance, suggested_id) ==
    [called |-> TRUE, code |-> 200, order_id |-> order_id,
     distance_km |-> Round2(distance),
     eta_minutes |-> Round2((distance * AVG_SPEED_KM_PER_MIN.den)
                                \div AVG_SPEED_KM_PER_MIN.num),
     co2_grams |-> Round2(distance * CO2_PER_KM_G),
     suggested_merge_with |-> suggested_id]

\* lines 31-70, for the subject's customer at (lat_cust, lon_cust)
eta_for_customer(order_id, db, custs, lat_cust, lon_cust) ==
    { eta_result(order_id,
                 haversine_km(WAREHOUSE_LAT, WAREHOUSE_LON, lat_cust, lon_cust),
                 merge_scan(db, custs, lat_cust, lon_cust, pending, 1)) :
        pending \in pending_orders(db, order_id) }

\* the ValueError of line 29, as get_order_eta answers it: 404
EtaNotFound(order_id) ==
    [called |-> TRUE, code |-> 404, order_id |-> order_id, distance_km |-> 0,
     eta_minutes |-> 0, co2_grams |-> 0, suggested_merge_with |-> NoOrder]

\* (a variant without the check of line 28: the missing order is used)
calculate_order_eta_unchecked(order_id, db, custs) ==
    IF order_id \notin DOMAIN db THEN {[EtaNotFound(order_id) EXCEPT !.code = 500]}
    ELSE eta_for_customer(order_id, db, custs,
                          custs[db[order_id].customer_id].latitude,
                          custs[db[order_id].customer_id].longitude)

\* calculate_order_eta(order_id, db): the results the call may return on
\* the tables db (orders) and custs (customers)
calculate_order_eta(order_id, db, custs) ==
    IF order_id \notin DOMAIN db THEN {EtaNotFound(order_id)}
    ELSE eta_for_customer(order_id, db, custs,
                          custs[db[order_id].customer_id].latitude,
                          custs[db[order_id].customer_id].longitude)

---------------------------------------------------------------------------
(* Responses and the paging client.                                        *)

NoPage == [called |-> FALSE, limit |-> 0, cursor |-> NoCursor,
           ok |-> TRUE, items |-> <<>>, next_cursor |-> NoCursor]

NoEta == [called |-> FALSE, code |-> 0, order_id |-> 0, distance_km |-> 0,
          eta_minutes |-> 0, co2_grams |-> 0, suggested_merge_with |-> NoOrder]

\* state: idle, paging (a next_cursor to follow), done (next_cursor null),
\* failed (a request raised). pages: the pages received. start: the ids that
\* existed at the first request. quiet: no order was created or deleted
\* since. safe: no order with id <= the last returned id was deleted since.
IdleSession == [state |-> "idle", limit |-> 0, cursor |-> NoCursor,
                pages |-> <<>>, start |-> {}, quiet |-> TRUE, safe |-> TRUE]

IdleCodec == [pc |-> "idle", key |-> 0, tok |-> <<>>, out |-> None]

\* pc: idle, customer, pending, scan, done. customer_id: the subject's
\* customer. cache: the customers the session has loaded (its identity
\* map). rows, pending, i: the orders the pending query returned, their ids
\* in the order returned, the position of the scan. out: the result. seen:
\* the states of the tables that existed since the call began.
IdleJob == [pc |-> "idle", order_id |-> 0, customer_id |-> 0, cache |-> <<>>,
            rows |-> <<>>, pending |-> <<>>, i |-> 0, out |-> NoEta, seen |-> {}]

\* the tables as one value
Snapshot(db, custs) == [orders |-> db, customers |-> custs]

\* a commit that leaves the tables db and custs, as a call in flight meets it
Overlapped(db, custs) ==
    IF job.pc \in {"idle", "done"} THEN job
    ELSE [job EXCEPT !.seen = @ \cup {Snapshot(db, custs)}]

RECURSIVE Flatten(_)
Flatten(pages) ==
    IF pages = <<>> THEN <<>> ELSE Head(pages) \o Flatten(Tail(pages))

Seen == Flatten(sess.pages)

\* what creating or deleting order id does to the paging client's record
Disturbed(id, deleted) ==
    IF sess.state = "idle" THEN sess
    ELSE [sess EXCEPT !.quiet = FALSE,
                      !.safe = /\ sess.safe
                               /\ ~(/\ deleted
                                    /\ Seen # <<>>
                                    /\ id <= Seen[Len(Seen)])]

---------------------------------------------------------------------------
(* The handlers of app/routers/orders.py that pagination depends on.       *)

\* crud.get_order(db, order_id): the row or nothing
crud_get_order(db, order_id) == order_id \in DOMAIN db

\* crud.delete_order(db, order_id)
crud_delete_order(db, order_id) == [id \in DOMAIN db \ {order_id} |-> db[id]]

\* POST /orders -> crud.create_order. The INSERT draws the id from the
\* sequence; an unknown customer_id violates the foreign key (400), and the
\* id drawn is not handed out again.
CreateOrder(c, tick) ==
    /\ nextId' = nextId + 1
    /\ IF c \in DOMAIN customers
       THEN /\ now' = now + tick
            /\ orders' = [id \in DOMAIN orders \cup {nextId} |->
                            IF id = nextId THEN NewOrder(c, now') ELSE orders[id]]
            /\ sess' = Disturbed(nextId, FALSE)
       ELSE UNCHANGED <<now, orders, sess>>
    /\ lastPage' = NoPage
    /\ lastEta' = NoEta
    /\ reply' = IF c \in DOMAIN customers THEN 201 ELSE 400
    /\ UNCHANGED <<customers, codec>>
    /\ job' = Overlapped(orders', customers')

\* DELETE /orders/{order_id}: 404 when the order does not exist
DeleteOrder(order_id) ==
    /\ IF crud_get_order(orders, order_id)
       THEN /\ orders' = crud_delete_order(orders, order_id)
            /\ sess' = Disturbed(order_id, TRUE)
       ELSE UNCHANGED <<orders, sess>>
    /\ lastPage' = NoPage
    /\ lastEta' = NoEta
    /\ reply' = IF crud_get_order(orders, order_id) THEN 204 ELSE 404
    /\ UNCHANGED <<nextId, customers, now, codec>>
    /\ job' = Overlapped(orders', customers')

\* GET /orders?limit=&cursor= with a cursor of the client's choosing
ListOrders(limit, cursor) ==
    /\ sess.state = "idle"
    /\ LET r == get_orders_cursor(orders, limit, cursor)
       IN lastPage' = [called |-> TRUE, limit |-> limit, cursor |-> cursor,
                       ok |-> r.ok, items |-> r.items, next_cursor |-> r.next_cursor]
    /\ reply' = IF lastPage'.ok THEN 200 ELSE 500
    /\ UNCHANGED <<orders, nextId, customers, now, lastEta, sess, codec, job>>

\* (a variant that marks the subject as waiting for a merge)
GetOrderEta_marking(order_id) ==
    /\ lastEta' \in calculate_order_eta(order_id, orders, customers)
    /\ orders' = [id \in DOMAIN orders |->
                    IF id = order_id THEN [orders[id] EXCEPT !.status = "pending"]
                    ELSE orders[id]]
    /\ reply' = lastEta'.code
    /\ UNCHANGED <<nextId, customers, now, lastPage, sess, codec, job>>

\* GET /orders/{order_id}/eta
GetOrderEta(order_id) ==
    /\ lastEta' \in calculate_order_eta(order_id, orders, customers)
    /\ reply' = lastEta'.code
    /\ UNCHANGED <<orders, nextId, customers, now, lastPage, sess, codec, job>>

\* the client's record after the response r to a request of its session
Received(s, r) ==
    IF ~r.ok THEN [s EXCEPT !.state = "failed"]
    ELSE [s EXCEPT !.state = IF r.next_cursor.some THEN "paging" ELSE "done",
                   !.cursor = r.next_cursor,
                   !.pages = Append(s.pages, r.items)]

\* the first GET /orders of a paging session: no cursor
PageFirst(limit) ==
    /\ sess.state = "idle"
    /\ sess' = Received([IdleSession EXCEPT !.limit = limit, !.start = DOMAIN orders],
                        get_orders_cursor(orders, limit, NoCursor))
    /\ lastPage' = NoPage
    /\ reply' = IF sess'.state = "failed" THEN 500 ELSE 200
    /\ UNCHANGED <<orders, nextId, customers, now, lastEta, codec, job>>

\* the next GET /orders of the session: the next_cursor received last
PageNext ==
    /\ sess.state = "paging"
    /\ sess' = Received(sess, get_orders_cursor(orders, sess.limit, sess.cursor))
    /\ reply' = IF sess'.state = "failed" THEN 500 ELSE 200
    /\ UNCHANGED <<orders, nextId, customers, now, lastPage, lastEta, codec, job>>

\* cursors a client can hold: none, one the server made, one of its own
CursorInputs ==
    {NoCursor} \cup {Cursor(t) : t \in KnownTokens}

\* Customer.latitude / longitude default to the warehouse's coordinates
InitCustomers ==
    [c \in CustomerIds |-> [latitude |-> WAREHOUSE_LAT, longitude |-> WAREHOUSE_LON]]

InitPage ==
    /\ orders = <<>>
    /\ nextId = 1
    /\ customers = InitCustomers
    /\ now = 0
    /\ lastPage = NoPage
    /\ lastEta = NoEta
    /\ sess = IdleSession
    /\ codec = IdleCodec
    /\ job = IdleJob
    /\ reply = 0

NextPage ==
    \/ \E c \in {1, 3} : nextId <= MaxOrders /\ CreateOrder(c, 0)
    \/ \E id \in 1..MaxOrders : DeleteOrder(id)
    \/ \E limit \in 1..MaxLimit, cursor \in CursorInputs : ListOrders(limit, cursor)
    \/ \E limit \in 1..MaxLimit : PageFirst(limit)
    \/ PageNext
    \/ \E id \in 1..MaxOrders : GetOrderEta(id)

SpecPage == InitPage /\ [][NextPage]_vars

---------------------------------------------------------------------------
(* The codec on its own: encode a key and decode the token, or decode a    *)
(* token of the client's.                                                  *)

InitCodec ==
    /\ orders = <<>>
    /\ nextId = 1
    /\ customers = InitCustomers
    /\ now = 0
    /\ lastPage = NoPage
    /\ lastEta = NoEta
    /\ sess = IdleSession
    /\ codec \in {[IdleCodec EXCEPT !.pc = "key", !.key = k] : k \in 1..MaxKey}
            \cup {[IdleCodec EXCEPT !.pc = "token", !.tok = t] : t \in ClientTokens}
    /\ job = IdleJob
    /\ reply = 0

CodecEncode ==
    /\ codec.pc = "key"
    /\ codec' = [codec EXCEPT !.pc = "encoded", !.tok = encode_cursor(codec.key)]
    /\ UNCHANGED <<orders, nextId, customers, now, lastPage, lastEta, sess, job, reply>>

CodecDecode ==
    /\ codec.pc \in {"encoded", "token"}
    /\ codec' = [codec EXCEPT !.pc = IF codec.pc = "encoded" THEN "decoded" ELSE "read",
                              !.out = decode_cursor(codec.tok)]
    /\ UNCHANGED <<orders, nextId, customers, now, lastPage, lastEta, sess, job, reply>>

NextCodec == CodecEncode \/ CodecDecode

SpecCodec == InitCodec /\ [][NextCodec]_vars

---------------------------------------------------------------------------
(* The order handlers and the ETA request: the main specification.         *)

\* crud.update_order(db, order_id, update): status is set when given
crud_update_order(db, order_id, status) == [db EXCEPT ![order_id].status = status]

\* PATCH /orders/{order_id}: 404 when the order does not exist
UpdateOrderStatus(order_id, status) ==
    /\ IF crud_get_order(orders, order_id)
       THEN orders' = crud_update_order(orders, order_id, status)
       ELSE UNCHANGED orders
    /\ lastPage' = NoPage
    /\ lastEta' = NoEta
    /\ reply' = IF crud_get_order(orders, order_id) THEN 200 ELSE 404
    /\ UNCHANGED <<nextId, customers, now, sess, codec>>
    /\ job' = Overlapped(orders', customers')

\* (a variant that writes another spelling of the status)
CancelOrder_canceled(order_id) ==
    /\ IF crud_get_order(orders, order_id)
       THEN orders' = crud_update_order(orders, order_id, "canceled")
       ELSE UNCHANGED orders
    /\ lastPage' = NoPage
    /\ lastEta' = NoEta
    /\ reply' = IF crud_get_order(orders, order_id) THEN 200 ELSE 404
    /\ UNCHANGED <<nextId, customers, now, sess, codec>>
    /\ job' = Overlapped(orders', customers')

\* POST /orders/{order_id}/cancel: the status becomes "cancelled"
CancelOrder(order_id) ==
    /\ IF crud_get_order(orders, order_id)
       THEN orders' = crud_update_order(orders, order_id, "cancelled")
       ELSE UNCHANGED orders
    /\ lastPage' = NoPage
    /\ lastEta' = NoEta
    /\ reply' = IF crud_get_order(orders, order_id) THEN 200 ELSE 404
    /\ UNCHANGED <<nextId, customers, now, sess, codec>>
    /\ job' = Overlapped(orders', customers')

\* the customers in the database: customer 1 lives at the warehouse,
\* customer 2 at any coordinate of the model
SeededCustomers ==
    {cs \in [CustomerIds -> Coords] :
        cs[1] = [latitude |-> WAREHOUSE_LAT, longitude |-> WAREHOUSE_LON]}

Init ==
    /\ orders = <<>>
    /\ nextId = 1
    /\ customers \in SeededCustomers
    /\ now = 0
    /\ lastPage = NoPage
    /\ lastEta = NoEta
    /\ sess = IdleSession
    /\ codec = IdleCodec
    /\ job = IdleJob
    /\ reply = 0

Next ==
    \/ \E c \in {1, 2, 3}, tick \in {0, 1} : nextId <= MaxEtaOrders /\ CreateOrder(c, tick)
    \/ \E id \in 1..MaxEtaOrders, status \in Statuses : UpdateOrderStatus(id, status)
    \/ \E id \in 1..MaxEtaOrders : CancelOrder(id)
    \/ \E id \in 1..MaxEtaOrders : DeleteOrder(id)
    \/ \E id \in 1..MaxEtaOrders : GetOrderEta(id)

Spec == Init /\ [][Next]_vars

---------------------------------------------------------------------------
(* calculate_order_eta statement by statement, among the commits of other  *)
(* requests. The engine of app/database.py sets no isolation level: on     *)
(* PostgreSQL each statement reads the rows committed when it starts.      *)

\* crud.update_customer(db, customer_id, CustomerUpdate(lat=lat, lon=lon))
crud_update_customer(custs, customer_id, lat, lon) ==
    [custs EXCEPT ![customer_id] = [latitude |-> lat, longitude |-> lon]]

\* PATCH /orders/{order_id}/address?lat=&lon=: 404 when the order does not
\* exist; else the customer of the order moves and the ETA is recalculated
UpdateOrderAddress(order_id, lat, lon) ==
    /\ IF crud_get_order(orders, order_id)
       THEN /\ customers' = crud_update_customer(customers,
                                 orders[order_id].customer_id, lat, lon)
            /\ lastEta' \in calculate_order_eta(order_id, orders, customers')
       ELSE /\ lastEta' = EtaNotFound(order_id)
            /\ UNCHANGED customers
    /\ lastPage' = NoPage
    /\ reply' = lastEta'.code
    /\ UNCHANGED <<orders, nextId, now, sess, codec>>
    /\ job' = Overlapped(orders', customers')

\* lines 22-29: the subject order, or ValueError
EtaFetchOrder(order_id) ==
    /\ job.pc = "idle"
    /\ job' = IF order_id \in DOMAIN orders
              THEN [job EXCEPT !.pc = "customer", !.order_id = order_id,
                               !.customer_id = orders[order_id].customer_id,
                               !.seen = {Snapshot(orders, customers)}]
              ELSE [job EXCEPT !.pc = "done", !.order_id = order_id,
                               !.out = EtaNotFound(order_id),
                               !.seen = {Snapshot(orders, customers)}]
    /\ UNCHANGED <<orders, nextId, customers, now, lastPage, lastEta, sess, codec, reply>>

\* lines 31-33: order.customer, a lazy load
EtaLoadCustomer ==
    /\ job.pc = "customer"
    /\ job' = [job EXCEPT !.pc = "pending",
                          !.cache = [c \in {job.customer_id} |-> customers[c]]]
    /\ UNCHANGED <<orders, nextId, customers, now, lastPage, lastEta, sess, codec, reply>>

\* lines 49-58: the pending query
EtaQueryPending ==
    /\ job.pc = "pending"
    /\ \E pending \in pending_orders(orders, job.order_id) :
          job' = [job EXCEPT !.pc = "scan", !.pending = pending, !.i = 1,
                             !.rows = [id \in Range(pending) |-> orders[id]]]
    /\ UNCHANGED <<orders, nextId, customers, now, lastPage, lastEta, sess, codec, reply>>

\* the identity map after other.customer: a customer it holds is not read
\* again
Loaded(cache, c) ==
    [k \in DOMAIN cache \cup {c} |-> IF k \in DOMAIN cache THEN cache[k] ELSE customers[k]]

\* lines 72-78, with the distance of lines 35-46
EtaReturn(suggested_id) ==
    eta_result(job.order_id,
               haversine_km(WAREHOUSE_LAT, WAREHOUSE_LON,
                            job.cache[job.customer_id].latitude,
                            job.cache[job.customer_id].longitude),
               suggested_id)

\* lines 60-70: one round of the loop, or its end
EtaScan ==
    /\ job.pc = "scan"
    /\ job' = IF job.i > Len(job.pending)
              THEN [job EXCEPT !.pc = "done", !.out = EtaReturn(NoOrder)]
              ELSE IF within_radius(job.rows,
                                    Loaded(job.cache, job.rows[job.pending[job.i]].customer_id),
                                    job.cache[job.customer_id].latitude,
                                    job.cache[job.customer_id].longitude,
                                    job.pending[job.i])
              THEN [job EXCEPT !.pc = "done",
                               !.cache = Loaded(job.cache, job.rows[job.pending[job.i]].customer_id),
                               !.out = EtaReturn(SomeOrder(job.pending[job.i]))]
              ELSE [job EXCEPT !.i = @ + 1,
                               !.cache = Loaded(job.cache, job.rows[job.pending[job.i]].customer_id)]
    /\ UNCHANGED <<orders, nextId, customers, now, lastPage, lastEta, sess, codec, reply>>

\* n orders in the database: order id of customer 1 (id odd) or 2 (id
\* even), as created_at 0 left them
SeededOrders(n) == [id \in 1..n |-> NewOrder(2 - (id % 2), 0)]

\* the coordinates PATCH /orders/{order_id}/address is called with
AddressInputs ==
    {c \in Coords : c.longitude = WAREHOUSE_LON /\ c.latitude # 504701}

InitSnap ==
    /\ orders = SeededOrders(MaxSnapOrders)
    /\ nextId = MaxSnapOrders + 1
    /\ customers = InitCustomers
    /\ now = 0
    /\ lastPage = NoPage
    /\ lastEta = NoEta
    /\ sess = IdleSession
    /\ codec = IdleCodec
    /\ job = IdleJob
    /\ reply = 0

\* a commit of another request: at most MaxOverlap of them meet one call
Commit ==
    \/ \E id \in 1..MaxSnapOrders, status \in Statuses : UpdateOrderStatus(id, status)
    \/ \E id \in 1..MaxSnapOrders : DeleteOrder(id)
    \/ \E id \in 1..MaxSnapOrders, c \in AddressInputs :
          UpdateOrderAddress(id, c.latitude, c.longitude)

NextSnap ==
    \/ Cardinality(job.seen) <= MaxOverlap /\ Commit
    \/ \E id \in 1..MaxSnapOrders : EtaFetchOrder(id)
    \/ EtaLoadCustomer
    \/ EtaQueryPending
    \/ EtaScan

SpecSnap == InitSnap /\ [][NextSnap]_vars

---------------------------------------------------------------------------
(* Addresses: PATCH /orders/{id}/address among status updates and ETA      *)
(* requests, each request on its own.                                      *)

\* crud.update_order(db, order_id, OrderCreate(customer_id, items)); the
\* items of an order are not in the model
crud_replace_order(db, order_id, customer_id) ==
    [db EXCEPT ![order_id].customer_id = customer_id]

\* (a variant that creates the order that is missing)
ReplaceOrder_upsert(order_id, c) ==
    /\ orders' = [id \in DOMAIN orders \cup {order_id} |->
                    IF id = order_id THEN NewOrder(c, now) ELSE orders[id]]
    /\ lastPage' = NoPage
    /\ lastEta' = NoEta
    /\ reply' = 200
    /\ UNCHANGED <<nextId, customers, now, sess, codec>>
    /\ job' = Overlapped(orders', customers')

\* PUT /orders/{order_id}: 404 when the order does not exist
ReplaceOrder(order_id, c) ==
    /\ IF crud_get_order(orders, order_id)
       THEN orders' = crud_replace_order(orders, order_id, c)
       ELSE UNCHANGED orders
    /\ lastPage' = NoPage
    /\ lastEta' = NoEta
    /\ reply' = IF crud_get_order(orders, order_id) THEN 200 ELSE 404
    /\ UNCHANGED <<nextId, customers, now, sess, codec>>
    /\ job' = Overlapped(orders', customers')

InitAddr ==
    /\ orders = SeededOrders(MaxAddrOrders)
    /\ nextId = MaxAddrOrders + 1
    /\ customers = InitCustomers
    /\ now = 0
    /\ lastPage = NoPage
    /\ lastEta = NoEta
    /\ sess = IdleSession
    /\ codec = IdleCodec
    /\ job = IdleJob
    /\ reply = 0

NextAddr ==
    \/ \E id \in 1..MaxAddrOrders + 1, status \in Statuses : UpdateOrderStatus(id, status)
    \/ \E id \in 1..MaxAddrOrders + 1, c \in AddressInputs :
          UpdateOrderAddress(id, c.latitude, c.longitude)
    \/ \E id \in 1..MaxAddrOrders + 1 : GetOrderEta(id)
    \/ \E id \in 1..MaxAddrOrders + 1 : DeleteOrder(id)
    \/ \E id \in 1..MaxAddrOrders + 1 : CancelOrder(id)
    \/ \E id \in 1..MaxAddrOrders + 1, c \in CustomerIds : ReplaceOrder(id, c)

SpecAddr == InitAddr /\ [][NextAddr]_vars

---------------------------------------------------------------------------
(* Claims about pagination (checked under SpecPage).                       *)

NoDuplicates(seq) == \A i, j \in 1..Len(seq) : i # j => seq[i] # seq[j]

Last(seq) == seq[Len(seq)]

\* C1: paging through an unchanging collection with a fixed limit, from no
\* cursor until next_cursor is null, returns every order exactly once, in
\* ascending id order.
C1_PaginationExhaustive ==
    (sess.state = "done" /\ sess.quiet) => Seen = SortedIds(DOMAIN orders)

\* C2: a page that comes with a next_cursor holds limit rows, and the
\* next_cursor encodes the id of the last row of the page (the last row
\* kept), not the id of the row that was dropped; a page is without
\* next_cursor exactly when no more than limit rows were left to fetch.
C2_NextCursorIsLastKept ==
    (lastPage.called /\ lastPage.ok) =>
        /\ ~lastPage.cursor.some =>
              (lastPage.next_cursor.some <=> Cardinality(DOMAIN orders) > lastPage.limit)
        /\ lastPage.next_cursor.some =>
              /\ Len(lastPage.items) = lastPage.limit
              /\ lastPage.next_cursor.tok = encode_cursor(Last(lastPage.items))

\* C3: with N >= 2 orders and limit = N-1, the first page holds N-1 rows and
\* a next_cursor, and the page fetched with that cursor holds exactly the
\* one remaining row.
C3_BoundaryNMinusOne ==
    (/\ sess.state \in {"paging", "done"}
     /\ sess.quiet
     /\ Cardinality(sess.start) >= 2
     /\ sess.limit = Cardinality(sess.start) - 1) =>
        /\ Len(sess.pages[1]) = sess.limit
        /\ Len(sess.pages) = 1 => sess.state = "paging"
        /\ Len(sess.pages) >= 2 =>
              /\ Len(sess.pages[2]) = 1
              /\ Range(sess.pages[1]) \cup Range(sess.pages[2]) = sess.start

\* C4: while other requests only insert orders (with larger ids) and delete
\* no order with id <= the last returned id, no order that existed when
\* paging started is returned twice or skipped.
C4_StableForwardIteration ==
    (sess.state \in {"paging", "done"} /\ sess.safe) =>
        /\ NoDuplicates(Seen)
        /\ \A o \in sess.start \cap DOMAIN orders :
              (sess.state = "done" \/ (Seen # <<>> /\ o <= Last(Seen)))
                  => o \in Range(Seen)

\* C5: a page never holds more than limit items, whatever the cursor and
\* the orders.
C5_PageWithinLimit ==
    /\ lastPage.called => Len(lastPage.items) <= lastPage.limit
    /\ \A i \in 1..Len(sess.pages) : Len(sess.pages[i]) <= sess.limit

C5_Witness ==
    /\ lastPage.called
    /\ lastPage.cursor.some
    /\ lastPage.next_cursor.some
    /\ Len(lastPage.items) = lastPage.limit
    /\ lastPage.limit >= 2

\* C7: a token that is no base64 / no JSON decodes to None without raising,
\* and the page requested with it is the page requested without a cursor.
C7_UndecodableIsNoCursor ==
    (lastPage.called /\ lastPage.cursor.some
                     /\ lastPage.cursor.tok \in UndecodableTokens) =>
        /\ decode_cursor(lastPage.cursor.tok) = None
        /\ lastPage.ok
        /\ lastPage.items = get_orders_cursor(orders, lastPage.limit, NoCursor).items
        /\ lastPage.next_cursor =
              get_orders_cursor(orders, lastPage.limit, NoCursor).next_cursor

C7_Witness ==
    /\ lastPage.called
    /\ lastPage.cursor = Cursor(TokGarbage)
    /\ lastPage.ok
    /\ lastPage.items = <<1, 2>>
    /\ lastPage.next_cursor.some

\* C8: a token of well-formed JSON without an integer id decodes to None and
\* is served as if no cursor was sent; _decode_cursor returns an integer or
\* None and nothing else.
C8_TamperedIsNoCursor ==
    /\ (lastPage.called /\ lastPage.cursor.some) =>
          decoded[lastPage.cursor.tok].t \in {"int", "null"}
    /\ (lastPage.called /\ lastPage.cursor.some
                        /\ lastPage.cursor.tok \in TamperedTokens) =>
          /\ decoded[lastPage.cursor.tok] = None
          /\ lastPage.ok
          /\ lastPage.items = get_orders_cursor(orders, lastPage.limit, NoCursor).items
          /\ lastPage.next_cursor =
                get_orders_cursor(orders, lastPage.limit, NoCursor).next_cursor

---------------------------------------------------------------------------
(* Claims about the codec (checked under SpecCodec).                       *)

\* C6: decoding the cursor encoded for key k yields exactly k.
C6_CursorRoundTrip ==
    codec.pc = "decoded" => codec.out = JInt(codec.key)

C6_Witness ==
    /\ codec.pc = "decoded"
    /\ codec.key > 99
    /\ codec.out = JInt(codec.key)

---------------------------------------------------------------------------
(* Claims about the ETA engine (checked under Spec).                       *)

Customer(order_id) == customers[orders[order_id].customer_id]

\* the distance between the customers of two orders
CustomerDistance(a, b) ==
    haversine_km(Customer(a).latitude, Customer(a).longitude,
                 Customer(b).latitude, Customer(b).longitude)

\* C9: the suggested_merge_with of a result is none, or the id of an order
\* other than the subject that is pending and whose customer lies within
\* MERGE_RADIUS_KM of the subject's customer.
C9_MergeTargetValid ==
    (lastEta.called /\ lastEta.code = 200 /\ lastEta.suggested_merge_with.some) =>
        /\ lastEta.suggested_merge_with.id # lastEta.order_id
        /\ lastEta.suggested_merge_with.id \in DOMAIN orders
        /\ orders[lastEta.suggested_merge_with.id].status = "pending"
        /\ CustomerDistance(lastEta.order_id, lastEta.suggested_merge_with.id)
              <= MERGE_RADIUS_KM * Million

\* a suggestion made after the scan passed an older pending order that is
\* out of the radius
C9_Witness ==
    /\ lastEta.called
    /\ lastEta.code = 200
    /\ lastEta.suggested_merge_with.some
    /\ \E o \in DOMAIN orders :
          /\ o # lastEta.order_id
          /\ orders[o].status = "pending"
          /\ orders[o].created_at < orders[lastEta.suggested_merge_with.id].created_at
          /\ CustomerDistance(lastEta.order_id, o) > MERGE_RADIUS_KM * Million

\* C10: of two pending orders within the radius, neither the subject, the
\* one created strictly later is never suggested, even when it is closer.
C10_FirstFound ==
    (lastEta.called /\ lastEta.code = 200) =>
        \A a, b \in DOMAIN orders :
            (/\ a # lastEta.order_id
             /\ b # lastEta.order_id
             /\ orders[a].status = "pending"
             /\ orders[b].status = "pending"
             /\ CustomerDistance(lastEta.order_id, a) <= MERGE_RADIUS_KM * Million
             /\ CustomerDistance(lastEta.order_id, b) <= MERGE_RADIUS_KM * Million
             /\ orders[a].created_at < orders[b].created_at)
            => /\ lastEta.suggested_merge_with.some
               /\ lastEta.suggested_merge_with.id # b
               /\ orders[lastEta.suggested_merge_with.id].created_at
                      <= orders[a].created_at

\* the order suggested was created first and is farther than a later one
C10_Witness ==
    /\ lastEta.called
    /\ lastEta.code = 200
    /\ lastEta.suggested_merge_with.some
    /\ \E b \in DOMAIN orders :
          /\ b # lastEta.order_id
          /\ orders[b].status = "pending"
          /\ orders[lastEta.suggested_merge_with.id].created_at < orders[b].created_at
          /\ CustomerDistance(lastEta.order_id, b)
                < CustomerDistance(lastEta.order_id, lastEta.suggested_merge_with.id)

\* the pending orders other than the subject of the last result whose
\* customer is within the radius of the subject's customer
Qualifying ==
    {o \in DOMAIN orders :
        /\ o # lastEta.order_id
        /\ orders[o].status = "pending"
        /\ CustomerDistance(lastEta.order_id, o) <= MERGE_RADIUS_KM * Million}

\* C11: of two pending candidates within the radius that were created at the
\* same time, the one with the larger id is never suggested (the scan is in
\* ascending (created_at, id) order).
C11_TieBreakById ==
    (lastEta.called /\ lastEta.code = 200) =>
        \A a, b \in Qualifying :
            (orders[a].created_at = orders[b].created_at /\ a < b) =>
                /\ lastEta.suggested_merge_with.some
                /\ lastEta.suggested_merge_with.id # b

\* C12: a pending candidate at exactly MERGE_RADIUS_KM from the subject's
\* customer qualifies: an order is suggested, one created no later than that
\* candidate, and no pending candidate created before the suggested order
\* is within the radius (the scan stopped at the first one).
C12_InclusiveRadius ==
    (lastEta.called /\ lastEta.code = 200) =>
        /\ \A o \in DOMAIN orders :
              (/\ o # lastEta.order_id
               /\ orders[o].status = "pending"
               /\ CustomerDistance(lastEta.order_id, o) = MERGE_RADIUS_KM * Million)
              => /\ lastEta.suggested_merge_with.some
                 /\ orders[lastEta.suggested_merge_with.id].created_at
                        <= orders[o].created_at
        /\ lastEta.suggested_merge_with.some =>
              \A e \in Qualifying :
                  orders[e].created_at
                      >= orders[lastEta.suggested_merge_with.id].created_at

\* the order suggested is at exactly the radius, and a pending order
\* created later is nearer
C12_Witness ==
    /\ lastEta.called
    /\ lastEta.code = 200
    /\ lastEta.suggested_merge_with.some
    /\ CustomerDistance(lastEta.order_id, lastEta.suggested_merge_with.id)
          = MERGE_RADIUS_KM * Million
    /\ \E e \in Qualifying :
          /\ orders[e].created_at > orders[lastEta.suggested_merge_with.id].created_at
          /\ CustomerDistance(lastEta.order_id, e) < MERGE_RADIUS_KM * Million

\* C13: the ETA of an order id that does not exist is answered 404, without
\* a result.
C13_EtaNotFound ==
    (lastEta.called /\ lastEta.order_id \notin DOMAIN orders) =>
        lastEta = EtaNotFound(lastEta.order_id)

\* the order asked for was deleted, another one is pending
C13_Witness ==
    /\ lastEta.called
    /\ lastEta.code = 404
    /\ lastEta.order_id < nextId
    /\ \E o \in DOMAIN orders : orders[o].status = "pending"

\* C14: when the subject's customer lives at the warehouse, distance_km,
\* eta_minutes and co2_grams are 0, whatever the subject's status and the
\* other orders.
C14_ZeroAtWarehouse ==
    (/\ lastEta.called
     /\ lastEta.code = 200
     /\ Customer(lastEta.order_id).latitude = WAREHOUSE_LAT
     /\ Customer(lastEta.order_id).longitude = WAREHOUSE_LON) =>
        /\ lastEta.distance_km = 0
        /\ lastEta.eta_minutes = 0
        /\ lastEta.co2_grams = 0

\* a cancelled subject at the warehouse, with a suggestion
C14_Witness ==
    /\ lastEta.called
    /\ lastEta.code = 200
    /\ Customer(lastEta.order_id).latitude = WAREHOUSE_LAT
    /\ Customer(lastEta.order_id).longitude = WAREHOUSE_LON
    /\ orders[lastEta.order_id].status = "cancelled"
    /\ lastEta.suggested_merge_with.some
    /\ lastEta.distance_km = 0

\* C15: a second call for the same order id, with nothing changed in
\* between, returns the result of the first call in every field.
C15_EtaDeterministic ==
    [][(/\ lastEta.called
        /\ lastEta'.called
        /\ lastEta'.order_id = lastEta.order_id) => lastEta' = lastEta]_vars

\* C19: eta_minutes and co2_grams of a result are the distance_km of that
\* result (the rounded distance) divided by AVG_SPEED_KM_PER_MIN and
\* multiplied by CO2_PER_KM_G.
C19_MetricsFollowDistance ==
    (lastEta.called /\ lastEta.code = 200) =>
        /\ lastEta.eta_minutes * AVG_SPEED_KM_PER_MIN.num
              = lastEta.distance_km * AVG_SPEED_KM_PER_MIN.den
        /\ lastEta.co2_grams = lastEta.distance_km * CO2_PER_KM_G

---------------------------------------------------------------------------
(* More claims about pagination (checked under SpecPage).                  *)

\* C17: with N >= 1 orders, the page of limit = N without cursor holds all
\* N orders and comes without next_cursor.
C17_BoundaryN ==
    (/\ lastPage.called
     /\ ~lastPage.cursor.some
     /\ Cardinality(DOMAIN orders) >= 1
     /\ lastPage.limit = Cardinality(DOMAIN orders)) =>
        /\ lastPage.ok
        /\ lastPage.items = SortedIds(DOMAIN orders)
        /\ ~lastPage.next_cursor.some

C17_Witness ==
    /\ lastPage.called
    /\ ~lastPage.cursor.some
    /\ lastPage.limit = Cardinality(DOMAIN orders)
    /\ lastPage.limit >= 2
    /\ Len(lastPage.items) = lastPage.limit
    /\ ~lastPage.next_cursor.some

---------------------------------------------------------------------------
(* Claims about reads among writes (checked under SpecPage and SpecSnap).  *)

\* a step in which an ETA or a page was computed and answered
ReadStep ==
    \/ lastEta'.called /\ lastEta' # lastEta
    \/ lastPage'.called /\ lastPage' # lastPage
    \/ sess'.pages # sess.pages
    \/ sess'.state = "failed" /\ sess.state # "failed"

\* C16: computing an ETA or a page, answered or failed, leaves the orders
\* (the set, each status and created_at) and the customers' coordinates as
\* they were.
C16_ReadOnly ==
    [][ReadStep => (orders' = orders /\ customers' = customers)]_vars

\* an ETA was answered and a page request failed, with orders in the table
C16_Witness ==
    /\ lastEta.called
    /\ lastEta.code = 200
    /\ lastPage.called
    /\ ~lastPage.ok
    /\ Cardinality(DOMAIN orders) >= 2

\* C18: the result of a call that other requests' commits overlapped is the
\* result of calculate_order_eta on one of the states of the tables that
\* existed during the call.
C18_SnapshotConsistent ==
    job.pc = "done" =>
        \E snap \in job.seen :
            job.out \in calculate_order_eta(job.order_id, snap.orders, snap.customers)

---------------------------------------------------------------------------
(* Claims about addresses (checked under SpecAddr).                        *)

\* C20: update_order_address on an existing order stores (lat, lon) as the
\* coordinates of the order's customer, and its response is the result a
\* GET /orders/{order_id}/eta returns on the state it leaves.
C20_AddressThenEta ==
    [][\A id \in DOMAIN orders, c \in Coords :
          UpdateOrderAddress(id, c.latitude, c.longitude) =>
              /\ customers'[orders[id].customer_id] = c
              /\ calculate_order_eta(id, orders', customers') = {lastEta'}]_vars

\* C25: update_order_address on an order leaves distance_km, eta_minutes
\* and co2_grams of every other order, those of the same customer
\* included, as they were.
C25_AddressFrame ==
    [][\A id \in DOMAIN orders, c \in Coords :
          UpdateOrderAddress(id, c.latitude, c.longitude) =>
              \A o \in DOMAIN orders \ {id} :
                  {<<r.distance_km, r.eta_minutes, r.co2_grams>> :
                      r \in calculate_order_eta(o, orders', customers')}
                = {<<r.distance_km, r.eta_minutes, r.co2_grams>> :
                      r \in calculate_order_eta(o, orders, customers)}]_vars

---------------------------------------------------------------------------
(* Claims about the life of an order (checked under Spec and SpecPage).    *)

\* C22: the ids a paging session has received are strictly ascending, in
\* each page and from page to page, whatever was inserted or deleted
\* meanwhile; no id is received twice.
C22_PagesAscending ==
    \A i, j \in 1..Len(Seen) : i < j => Seen[i] < Seen[j]

\* a second page with rows, received after an order of the first page was
\* deleted
C22_Witness ==
    /\ Len(sess.pages) >= 2
    /\ sess.pages[1] # <<>>
    /\ sess.pages[2] # <<>>
    /\ ~sess.safe

\* C23: cancel_order on an existing order leaves it with status
\* "cancelled", and no ETA result suggests an order whose status is
\* "cancelled".
C23_CancelledNotSuggested ==
    [][/\ \A o \in DOMAIN orders : CancelOrder(o) => orders'[o].status = "cancelled"
       /\ (lastEta'.called /\ lastEta'.suggested_merge_with.some) =>
              orders'[lastEta'.suggested_merge_with.id].status # "cancelled"]_vars

\* a cancelled order within the radius was passed over for a later one
C23_Witness ==
    /\ lastEta.called
    /\ lastEta.code = 200
    /\ lastEta.suggested_merge_with.some
    /\ \E o \in DOMAIN orders :
          /\ o # lastEta.order_id
          /\ orders[o].status = "cancelled"
          /\ CustomerDistance(lastEta.order_id, o) <= MERGE_RADIUS_KM * Million
          /\ orders[o].created_at < orders[lastEta.suggested_merge_with.id].created_at

\* C24: an order is created with status "new", and no ETA result suggests
\* an order whose status is "new".
C24_NewNotSuggested ==
    [][/\ \A o \in DOMAIN orders' \ DOMAIN orders : orders'[o].status = "new"
       /\ (lastEta'.called /\ lastEta'.suggested_merge_with.some) =>
              orders'[lastEta'.suggested_merge_with.id].status # "new"]_vars

\* a new order within the radius was passed over for a later one
C24_Witness ==
    /\ lastEta.called
    /\ lastEta.code = 200
    /\ lastEta.suggested_merge_with.some
    /\ \E o \in DOMAIN orders :
          /\ o # lastEta.order_id
          /\ orders[o].status = "new"
          /\ CustomerDistance(lastEta.order_id, o) <= MERGE_RADIUS_KM * Million
          /\ orders[o].created_at < orders[lastEta.suggested_merge_with.id].created_at

---------------------------------------------------------------------------
(* Claims about orders that do not exist (checked under SpecAddr).         *)

\* C21: for an order id that does not exist, replace, status update,
\* delete, cancel and address update answer 404 and leave every order and
\* every customer as they were.
C21_MissingOrder404 ==
    [][\A id \in (1..nextId) \ DOMAIN orders :
          (\/ \E c \in CustomerIds : ReplaceOrder(id, c)
           \/ \E status \in Statuses : UpdateOrderStatus(id, status)
           \/ DeleteOrder(id)
           \/ CancelOrder(id)
           \/ \E c \in Coords : UpdateOrderAddress(id, c.latitude, c.longitude))
          => /\ reply' = 404
             /\ orders' = orders
             /\ customers' = customers]_vars

\* a write to an order that was deleted was answered 404, with a pending
\* order in the table and a customer away from the warehouse
C21_Witness ==
    /\ reply = 404
    /\ ~lastEta.called
    /\ DOMAIN orders # 1..(nextId - 1)
    /\ \E o \in DOMAIN orders : orders[o].status = "pending"
    /\ customers # InitCustomers

===========================================================================
